---- MODULE Spec2Model ----
(***************************************************************************)
(* Model of NewsletterSender.send_newsletters and NewsletterSender._rate_limit *)
(* (src/main.py).  One run: startup checks, then the recipient loop with its   *)
(* per-attempt exception classification, the rate limiter and the results    *)
(* file (rows).  The SMTP server's answer to each send is environment input.  *)
(***************************************************************************)
EXTENDS Integers, Sequences, FiniteSets, TLC

\* ---------------- bounds ----------------
NumRecipients == 3
MaxBatch == 2
BatchDelay == 3
DelayBetween == 2
MaxLines == 3

\* ---------------- program constants ----------------
Retries == 3
DisconnectWait == 5
PolicyWait == 600
StartTime == 1000000
InitialLastSendTime == 0
NoCode == -1

\* ---------------- strings: addresses as character sequences ----------------
\* a string is a sequence of tokens; a token is one character or the word
\* "email" (so that "'email' in s.lower()" can be decided on tokens)
LowerChar(c) ==
  CASE c = "X" -> "x" [] c = "Y" -> "y" [] c = "A" -> "a"
    [] c = "EMAIL" -> "email" [] OTHER -> c

Lower(s) == [k \in DOMAIN s |-> LowerChar(s[k])]

RECURSIVE StripLeft(_)
StripLeft(s) == IF Len(s) > 0 /\ s[1] = " " THEN StripLeft(Tail(s)) ELSE s

RECURSIVE StripRight(_)
StripRight(s) == IF Len(s) > 0 /\ s[Len(s)] = " "
                 THEN StripRight(SubSeq(s, 1, Len(s) - 1)) ELSE s

Strip(s) == StripRight(StripLeft(s))

NormMut(s) == Strip(s)

Norm(s) == Lower(Strip(s))

\* raw addresses of the recipient file (with case and padding variants)
RawAddrs == {<<"x">>, <<" ", "x">>, <<" ", "X">>, <<"y">>}

\* ---------------- _read_blacklist ----------------
\* a file is a sequence of csv lines; a line is a sequence of fields
\* (<< >> is a blank line, which csv.reader returns as [])

Range(f) == {f[k] : k \in DOMAIN f}

\* has_header = 'email' in (peek or '').lower()   (peek: first line)
HasHeader(file) ==
  /\ Len(file) > 0
  /\ \E fld \in Range(file[1]) : \E k \in DOMAIN fld : Lower(fld)[k] = "email"

MaxIndex(S) == CHOOSE j \in S : \A k \in S : k <= j

\* csv.DictReader row .get('email'): dict(zip(fieldnames, row)), then keys of
\* fieldnames[len(row):] set to restval (None); None and '' both give << >>
DictGetEmail(names, row) ==
  LET E == {j \in DOMAIN names : names[j] = <<"email">>}
  IN IF E = {} THEN << >>
     ELSE IF \E j \in E : j > Len(row) THEN << >>
     ELSE row[MaxIndex(E)]

ReadBlacklist(file) ==
  IF HasHeader(file)
  THEN { Lower(Strip(DictGetEmail(file[1], file[k]))) :
           k \in {k \in 2..Len(file) : file[k] # << >>} } \ {<< >>}
  ELSE { Lower(Strip(file[k][1])) : k \in {k \in DOMAIN file : file[k] # << >>} }
         \ {<< >>, <<"email">>}

\* suppression file of the modelled runs: a header line, then " X"
BlacklistFile == << << <<"email">> >>, << <<" ", "X">> >> >>

\* ---------------- SMTP answers to one send_message ----------------
Outcomes ==
  {[k |-> "ok", code |-> NoCode, pv |-> FALSE]}
  \cup {[k |-> "disc", code |-> NoCode, pv |-> b] : b \in BOOLEAN}
  \cup {[k |-> "refused", code |-> c, pv |-> b] : c \in {556, 550, NoCode}, b \in BOOLEAN}
  \cup {[k |-> "data", code |-> c, pv |-> b] : c \in {556, 554}, b \in BOOLEAN}
  \cup {[k |-> "other", code |-> NoCode, pv |-> b] : b \in BOOLEAN}

\* time that passes between the previous step and the clock read in _rate_limit
PrepDurations == 0..1

VARIABLES
  recips,                 \* recipients read from csv_path
  bl,                     \* blacklist_emails
  stop_on_error,
  emails_per_batch,       \* config['rate_limit']['emails_per_batch']
  pc,                     \* "start","check","attempt","post","done","aborted","fatal","nobl","startfail"
  idx,                    \* index of the current recipient (enumerate(recipients, 1))
  attempt,
  sent_count,
  last_send_time,
  last_successful_email,  \* index of the recipient, 0 for None
  now,                    \* wall clock time.time()
  rows,                   \* rows of the results file: [i, st]
  email_sent_successfully,
  non_fatal_skip,
  tried,                  \* recipients for which _rate_limit/send_message ran
  step,                   \* observation of the last step
  bfile,                  \* contents of the suppression (blacklist) file
  startres                \* results of the startup checks

vars == <<recips, bl, stop_on_error, emails_per_batch, pc, idx, attempt,
          sent_count, last_send_time, last_successful_email, now, rows,
          email_sent_successfully, non_fatal_skip, tried, step, bfile, startres>>

NoStep == [act |-> "none", rl |-> "none", scBefore |-> 0, scAtSend |-> 0,
           wait |-> 0, gap |-> 0, out |-> "none", code |-> NoCode, pv |-> FALSE,
           pwait |-> 0, reconn |-> "none"]

Init ==
  /\ recips \in [1..NumRecipients -> RawAddrs]
  /\ bfile = BlacklistFile
  /\ bl = {}
  /\ startres = [done |-> FALSE, blOk |-> FALSE, testOk |-> FALSE, loginOk |-> FALSE]
  /\ stop_on_error \in BOOLEAN
  /\ emails_per_batch \in 1..MaxBatch
  /\ pc = "start"
  /\ idx = 1
  /\ attempt = 0
  /\ sent_count = 0
  /\ last_send_time = InitialLastSendTime
  /\ last_successful_email = 0
  /\ now = StartTime
  /\ rows = << >>
  /\ email_sent_successfully = FALSE
  /\ non_fatal_skip = FALSE
  /\ tried = {}
  /\ step = NoStep

StartupFailOpen ==
  /\ pc = "start"
  /\ \E blOk, testOk, loginOk \in BOOLEAN :
       /\ pc' = IF ~testOk THEN "startfail"
               ELSE IF ~loginOk THEN "startfail"
               ELSE "check"
       /\ bl' = IF blOk THEN ReadBlacklist(bfile) ELSE {}
       /\ startres' = [done |-> TRUE, blOk |-> blOk, testOk |-> testOk,
                       loginOk |-> loginOk]
  /\ step' = [NoStep EXCEPT !.act = "startup"]
  /\ UNCHANGED <<recips, stop_on_error, emails_per_batch, idx, attempt,
                 sent_count, last_send_time, last_successful_email, now, rows,
                 email_sent_successfully, non_fatal_skip, tried, bfile>>

\* _read_blacklist (blOk: file present and readable), _test_smtp_connection,
\* then SMTP_SSL + login of the sending session
Startup ==
  /\ pc = "start"
  /\ \E blOk, testOk, loginOk \in BOOLEAN :
       /\ pc' = IF ~blOk THEN "nobl"
               ELSE IF ~testOk THEN "startfail"
               ELSE IF ~loginOk THEN "startfail"
               ELSE "check"
       /\ bl' = IF blOk THEN ReadBlacklist(bfile) ELSE {}
       /\ startres' = [done |-> TRUE, blOk |-> blOk, testOk |-> testOk,
                       loginOk |-> loginOk]
  /\ step' = [NoStep EXCEPT !.act = "startup"]
  /\ UNCHANGED <<recips, stop_on_error, emails_per_batch, idx, attempt,
                 sent_count, last_send_time, last_successful_email, now, rows,
                 email_sent_successfully, non_fatal_skip, tried, bfile>>

CheckRecipientNoRow ==
  /\ pc = "check"
  /\ idx <= Len(recips)
  /\ IF Norm(recips[idx]) \in bl
     THEN /\ idx' = idx + 1
          /\ pc' = "check"
          /\ step' = [NoStep EXCEPT !.act = "blacklist"]
          /\ UNCHANGED <<rows, attempt, email_sent_successfully, non_fatal_skip>>
     ELSE /\ pc' = "attempt"
          /\ attempt' = 0
          /\ email_sent_successfully' = FALSE
          /\ non_fatal_skip' = FALSE
          /\ step' = [NoStep EXCEPT !.act = "process"]
          /\ UNCHANGED <<rows, idx>>
  /\ UNCHANGED <<recips, bl, stop_on_error, emails_per_batch, sent_count,
                 last_send_time, last_successful_email, now, tried, bfile, startres>>

\* blacklist check at the top of the recipient loop; also the loop's end
CheckRecipient ==
  /\ pc = "check"
  /\ idx <= Len(recips)
  /\ IF Norm(recips[idx]) \in bl
     THEN /\ rows' = Append(rows, [i |-> idx, st |-> "skipped_blacklist"])
          /\ idx' = idx + 1
          /\ pc' = "check"
          /\ step' = [NoStep EXCEPT !.act = "blacklist"]
          /\ UNCHANGED <<attempt, email_sent_successfully, non_fatal_skip>>
     ELSE /\ pc' = "attempt"
          /\ attempt' = 0
          /\ email_sent_successfully' = FALSE
          /\ non_fatal_skip' = FALSE
          /\ step' = [NoStep EXCEPT !.act = "process"]
          /\ UNCHANGED <<rows, idx>>
  /\ UNCHANGED <<recips, bl, stop_on_error, emails_per_batch, sent_count,
                 last_send_time, last_successful_email, now, tried, bfile, startres>>

FinishRun ==
  /\ pc = "check"
  /\ idx > Len(recips)
  /\ pc' = "done"
  /\ step' = [NoStep EXCEPT !.act = "finish"]
  /\ UNCHANGED <<recips, bl, stop_on_error, emails_per_batch, idx, attempt,
                 sent_count, last_send_time, last_successful_email, now, rows,
                 email_sent_successfully, non_fatal_skip, tried, bfile, startres>>

Max(a, b) == IF a >= b THEN a ELSE b

RateLimitNoReset(sc, lst, t, N) ==
  IF sc >= N
  THEN [sc |-> sc, t |-> t + Max(BatchDelay, 0), kind |-> "batch",
        wait |-> Max(BatchDelay, 0)]
  ELSE IF t - lst < DelayBetween
       THEN [sc |-> sc, t |-> t + (DelayBetween - (t - lst)), kind |-> "spacing",
             wait |-> DelayBetween - (t - lst)]
       ELSE [sc |-> sc, t |-> t, kind |-> "spacing", wait |-> 0]

RateLimitSpacingFirst(sc, lst, t, N) ==
  IF t - lst < DelayBetween
  THEN [sc |-> sc, t |-> t + (DelayBetween - (t - lst)), kind |-> "spacing",
        wait |-> DelayBetween - (t - lst)]
  ELSE IF sc >= N
       THEN [sc |-> 0, t |-> t + Max(BatchDelay, 0), kind |-> "batch",
             wait |-> Max(BatchDelay, 0)]
       ELSE [sc |-> sc, t |-> t, kind |-> "spacing", wait |-> 0]

RateLimitNoWait(sc, lst, t, N) ==
  IF sc >= N
  THEN [sc |-> 0, t |-> t, kind |-> "batch", wait |-> 0]
  ELSE IF t - lst < DelayBetween
       THEN [sc |-> sc, t |-> t + (DelayBetween - (t - lst)), kind |-> "spacing",
             wait |-> DelayBetween - (t - lst)]
       ELSE [sc |-> sc, t |-> t, kind |-> "spacing", wait |-> 0]

RateLimitGt(sc, lst, t, N) ==
  IF sc > N
  THEN [sc |-> 0, t |-> t + Max(BatchDelay, 0), kind |-> "batch",
        wait |-> Max(BatchDelay, 0)]
  ELSE IF t - lst < DelayBetween
       THEN [sc |-> sc, t |-> t + (DelayBetween - (t - lst)), kind |-> "spacing",
             wait |-> DelayBetween - (t - lst)]
       ELSE [sc |-> sc, t |-> t, kind |-> "spacing", wait |-> 0]

\* _rate_limit: returns the new sent_count and clock, which rule ran, its wait
RateLimit(sc, lst, t, N) ==
  IF sc >= N
  THEN [sc |-> 0, t |-> t + Max(BatchDelay, 0), kind |-> "batch",
        wait |-> Max(BatchDelay, 0)]
  ELSE IF t - lst < DelayBetween
       THEN [sc |-> sc, t |-> t + (DelayBetween - (t - lst)), kind |-> "spacing",
             wait |-> DelayBetween - (t - lst)]
       ELSE [sc |-> sc, t |-> t, kind |-> "spacing", wait |-> 0]

\* classification of an exception after it reached a handler:
\*   st = status of the row, pwait = extra sleep, nfs = non_fatal_skip,
\*   fail = the stop_on_error branch is taken
HandleRefusedMut(code, pv) ==
  IF pv THEN [st |-> "skipped_policy_violation", pwait |-> PolicyWait,
              nfs |-> TRUE, fail |-> FALSE]
  ELSE [st |-> "failed", pwait |-> 0, nfs |-> FALSE, fail |-> TRUE]

HandleRefused(code, pv) ==
  IF code = 556 THEN [st |-> "skipped", pwait |-> 0, nfs |-> TRUE, fail |-> FALSE]
  ELSE IF pv THEN [st |-> "skipped_policy_violation", pwait |-> PolicyWait,
                   nfs |-> TRUE, fail |-> FALSE]
  ELSE [st |-> "failed", pwait |-> 0, nfs |-> FALSE, fail |-> TRUE]

HandleDataBadStatus(code, pv) ==
  IF code = 556 THEN [st |-> "skipped", pwait |-> 0, nfs |-> TRUE, fail |-> FALSE]
  ELSE IF pv THEN [st |-> "skipped_policy_violation", pwait |-> PolicyWait,
                   nfs |-> TRUE, fail |-> FALSE]
  ELSE [st |-> "error", pwait |-> 0, nfs |-> FALSE, fail |-> TRUE]

HandleData(code, pv) ==
  IF code = 556 THEN [st |-> "skipped", pwait |-> 0, nfs |-> TRUE, fail |-> FALSE]
  ELSE IF pv THEN [st |-> "skipped_policy_violation", pwait |-> PolicyWait,
                   nfs |-> TRUE, fail |-> FALSE]
  ELSE [st |-> "failed", pwait |-> 0, nfs |-> FALSE, fail |-> TRUE]

HandleOtherMut(pv) ==
  [st |-> "failed", pwait |-> 0, nfs |-> FALSE, fail |-> TRUE]

HandleOther(pv) ==
  IF pv THEN [st |-> "skipped_policy_violation", pwait |-> PolicyWait,
              nfs |-> TRUE, fail |-> FALSE]
  ELSE [st |-> "failed", pwait |-> 0, nfs |-> FALSE, fail |-> TRUE]

Handle(o) ==
  CASE o.k = "refused" -> HandleRefused(o.code, o.pv)
    [] o.k = "data"    -> HandleData(o.code, o.pv)
    [] o.k = "other"   -> HandleOther(o.pv)

OnDisconnectSwallow(att, ok) ==
  IF att < Retries - 1
  THEN [pc |-> "attempt", attempt |-> att + 1, wait |-> DisconnectWait,
        reconn |-> IF ok THEN "ok" ELSE "fail"]
  ELSE [pc |-> "fatal", attempt |-> att, wait |-> 0, reconn |-> "none"]

OnDisconnectNoRaise(att, ok) ==
  IF att < Retries - 1
  THEN IF ok
       THEN [pc |-> "attempt", attempt |-> att + 1, wait |-> DisconnectWait,
             reconn |-> "ok"]
       ELSE [pc |-> "fatal", attempt |-> att, wait |-> DisconnectWait,
             reconn |-> "fail"]
  ELSE [pc |-> "post", attempt |-> att, wait |-> 0, reconn |-> "none"]

\* except SMTPServerDisconnected: with attempts left, sleep 5 s and reconnect
\* (SMTP_SSL + login; ok = they did not raise, else the exception leaves the
\* loop and the run); on the last attempt `raise`, which ends the run
OnDisconnect(att, ok) ==
  IF att < Retries - 1
  THEN IF ok
       THEN [pc |-> "attempt", attempt |-> att + 1, wait |-> DisconnectWait,
             reconn |-> "ok"]
       ELSE [pc |-> "fatal", attempt |-> att, wait |-> DisconnectWait,
             reconn |-> "fail"]
  ELSE [pc |-> "fatal", attempt |-> att, wait |-> 0, reconn |-> "none"]

\* one iteration of `for attempt in range(retries)`: _rate_limit, send_message,
\* then the matching except clause.  ReconnectOk: outcomes of the reconnect
\* (SMTP_SSL + login) inside the SMTPServerDisconnected handler.
Attempt(ReconnectOk) ==
  /\ pc = "attempt"
  /\ \E o \in Outcomes, d0 \in PrepDurations :
      LET r  == RateLimit(sent_count, last_send_time, now + d0, emails_per_batch)
          ts == r.t
          obs == [act |-> "attempt", rl |-> r.kind, scBefore |-> sent_count,
                  scAtSend |-> r.sc, wait |-> r.wait, gap |-> r.t - last_send_time,
                  out |-> o.k, code |-> o.code, pv |-> o.pv, pwait |-> 0, reconn |-> "none"]
      IN
      /\ tried' = tried \cup {idx}
      /\ IF o.k = "ok"
         THEN /\ rows' = Append(rows, [i |-> idx, st |-> "success"])
              /\ sent_count' = r.sc + 1
              /\ last_send_time' = ts
              /\ last_successful_email' = idx
              /\ email_sent_successfully' = TRUE
              /\ now' = ts
              /\ pc' = "post"
              /\ step' = obs
              /\ UNCHANGED <<attempt, non_fatal_skip>>
         ELSE IF o.k = "disc"
         THEN /\ sent_count' = r.sc
              /\ \E ok \in ReconnectOk :
                   LET d == OnDisconnect(attempt, ok) IN
                   /\ now' = ts + d.wait
                   /\ attempt' = d.attempt
                   /\ pc' = d.pc
                   /\ step' = [obs EXCEPT !.pwait = d.wait, !.reconn = d.reconn]
              /\ UNCHANGED <<rows, last_send_time, last_successful_email,
                             email_sent_successfully, non_fatal_skip>>
         ELSE LET h == Handle(o) IN
              /\ rows' = Append(rows, [i |-> idx, st |-> h.st])
              /\ sent_count' = r.sc
              /\ now' = ts + h.pwait
              /\ non_fatal_skip' = h.nfs
              /\ pc' = IF h.fail /\ stop_on_error THEN "aborted" ELSE "post"
              /\ step' = [obs EXCEPT !.pwait = h.pwait]
              /\ UNCHANGED <<attempt, last_send_time, last_successful_email,
                             email_sent_successfully>>
  /\ UNCHANGED <<recips, bl, stop_on_error, emails_per_batch, idx, bfile, startres>>

PostLoopMut ==
  /\ pc = "post"
  /\ IF ~email_sent_successfully /\ ~non_fatal_skip
     THEN /\ pc' = "aborted"
          /\ UNCHANGED idx
     ELSE /\ pc' = "check"
          /\ idx' = idx + 1
  /\ step' = [NoStep EXCEPT !.act = "post"]
  /\ UNCHANGED <<recips, bl, stop_on_error, emails_per_batch, attempt,
                 sent_count, last_send_time, last_successful_email, now, rows,
                 email_sent_successfully, non_fatal_skip, tried, bfile, startres>>

\* after the attempt loop: the "failed after all retries" abort, else next recipient
PostLoop ==
  /\ pc = "post"
  /\ IF ~email_sent_successfully /\ stop_on_error /\ ~non_fatal_skip
     THEN /\ pc' = "aborted"
          /\ UNCHANGED idx
     ELSE /\ pc' = "check"
          /\ idx' = idx + 1
  /\ step' = [NoStep EXCEPT !.act = "post"]
  /\ UNCHANGED <<recips, bl, stop_on_error, emails_per_batch, attempt,
                 sent_count, last_send_time, last_successful_email, now, rows,
                 email_sent_successfully, non_fatal_skip, tried, bfile, startres>>

NextWith(ReconnectOk) ==
  \/ Startup
  \/ CheckRecipient
  \/ FinishRun
  \/ Attempt(ReconnectOk)
  \/ PostLoop

Next == NextWith(BOOLEAN)

Spec == Init /\ [][Next]_vars

\* runs in which every reconnect after a disconnect succeeds
ReconnectOkNext == NextWith({TRUE})

SendSpec == Init /\ [][ReconnectOkNext]_vars


\* address column of a row: the stripped address for a blacklisted recipient,
\* recipient['email'] as read otherwise
WrittenAddr(r) ==
  IF r.st = "skipped_blacklist" THEN Strip(recips[r.i]) ELSE recips[r.i]

\* ======================= claims =======================

RowCount(i) == Cardinality({k \in DOMAIN rows : rows[k].i = i})

AttemptStep == pc = "attempt" /\ step'.act = "attempt"

\* C1: a recipient whose trimmed, lowercased address is in the suppression set
\* gets no _rate_limit / send_message call, exactly one skipped_blacklist row,
\* and sent_count, last_send_time, last_successful_email stay unchanged.
C1_Suppressed ==
  /\ [][ (pc = "check" /\ idx <= Len(recips) /\ Lower(Strip(recips[idx])) \in bl)
         => /\ rows' = Append(rows, [i |-> idx, st |-> "skipped_blacklist"])
            /\ idx' = idx + 1
            /\ pc' = "check"
            /\ UNCHANGED <<sent_count, last_send_time, last_successful_email,
                           now, tried>> ]_vars
  /\ [](\A i \in 1..Len(recips) :
          Lower(Strip(recips[i])) \in bl =>
            /\ i \notin tried
            /\ (i < idx => RowCount(i) = 1))

C1_Witness ==
  \E i \in 1..Len(recips) :
     /\ recips[i] = <<" ", "X">>
     /\ i < idx
     /\ RowCount(i) = 1

\* C2: at the end of a run every recipient either was never reached because an
\* earlier recipient aborted the run, or has exactly one row.
C2_OneRowPerReached ==
  pc \in {"done", "aborted", "fatal"} =>
    \A i \in 1..Len(recips) : i > idx \/ RowCount(i) = 1

\* C3: a third disconnect on the same recipient is handled as a generic
\* failure: a failed row, and with stop_on_error false the run continues.
C3_DisconnectExhausted ==
  [][ (AttemptStep /\ attempt = Retries - 1 /\ step'.out = "disc" /\ ~step'.pv)
      => /\ rows' = Append(rows, [i |-> idx, st |-> "failed"])
         /\ (~stop_on_error => pc' = "post") ]_vars

\* C4: a non-556 rejection or other exception with policy-violation text gives a
\* skipped_policy_violation row and a 600 s wait, then the next recipient,
\* whatever stop_on_error is.
C4_PolicyViolation ==
  /\ [][ (AttemptStep /\ step'.pv
          /\ ( (step'.out \in {"refused", "data"} /\ step'.code # 556)
               \/ step'.out = "other" ))
         => /\ rows' = Append(rows, [i |-> idx, st |-> "skipped_policy_violation"])
            /\ step'.pwait = 600
            /\ now' >= now + 600
            /\ pc' = "post"
            /\ non_fatal_skip' ]_vars
  /\ [][ (pc = "post" /\ non_fatal_skip) => (pc' = "check" /\ idx' = idx + 1) ]_vars

C4_Witness ==
  /\ stop_on_error
  /\ pc = "check"
  /\ Len(rows) > 0
  /\ rows[Len(rows)].st = "skipped_policy_violation"

\* C5: the policy-violation check precedes generic failure handling on every
\* path, including a final disconnect carrying policy-violation text.
C5_PolicyBeforeGeneric ==
  [][ (AttemptStep /\ step'.pv /\ step'.code # 556
       /\ (step'.out # "disc" \/ attempt = Retries - 1))
      => /\ rows' = Append(rows, [i |-> idx, st |-> "skipped_policy_violation"])
         /\ pc' = "post" ]_vars

\* C6: a 556 rejection (SMTPRecipientsRefused or SMTPDataError) gives a skipped
\* row and the run goes on to the next recipient, never a stop_on_error abort.
C6_InvalidDomain ==
  /\ [][ (AttemptStep /\ step'.out \in {"refused", "data"} /\ step'.code = 556)
         => /\ rows' = Append(rows, [i |-> idx, st |-> "skipped"])
            /\ pc' = "post"
            /\ non_fatal_skip' ]_vars
  /\ [][ (pc = "post" /\ non_fatal_skip) => (pc' = "check" /\ idx' = idx + 1) ]_vars

C6_Witness ==
  /\ stop_on_error
  /\ pc = "check"
  /\ Len(rows) > 0
  /\ rows[Len(rows)].st = "skipped"

\* C7: an unclassified failure writes a failed row; with stop_on_error the run
\* halts there and no later recipient gets a row, without it the run goes on
\* to the next recipient.
C7_StopOnError ==
  /\ [][ (AttemptStep /\ step'.out \in {"refused", "data", "other"}
          /\ step'.code # 556 /\ ~step'.pv)
         => /\ rows' = Append(rows, [i |-> idx, st |-> "failed"])
            /\ (stop_on_error => pc' = "aborted")
            /\ (~stop_on_error => pc' = "post") ]_vars
  /\ [][ (pc = "post" /\ ~stop_on_error) => (pc' = "check" /\ idx' = idx + 1) ]_vars
  /\ [](pc = "aborted" =>
          /\ \A k \in DOMAIN rows : rows[k].i <= idx
          /\ rows[Len(rows)] = [i |-> idx, st |-> "failed"]
          /\ ~ENABLED Next)

C7_Witness ==
  /\ ~stop_on_error
  /\ \E k \in DOMAIN rows :
       /\ rows[k].st = "failed"
       /\ rows[k].i < Len(recips)
       /\ idx > rows[k].i + 1

\* C8: _rate_limit runs before every attempt (retries included); an attempt made
\* with sent_count >= emails_per_batch is preceded by a batch_delay wait after
\* which sent_count is 0 when send_message is called.
C8_BatchCooldown ==
  [][ AttemptStep
      => /\ step'.rl \in {"batch", "spacing"}
         /\ (sent_count >= emails_per_batch =>
               /\ step'.rl = "batch"
               /\ step'.wait = BatchDelay
               /\ now' >= now + BatchDelay
               /\ step'.scAtSend = 0) ]_vars

C8_Witness ==
  /\ step.act = "attempt"
  /\ step.rl = "batch"
  /\ step.scBefore = emails_per_batch
  /\ step.out = "ok"
  /\ sent_count = 1

\* C9: per _rate_limit call exactly one rule applies, the batch rule first;
\* otherwise on return delay_between_emails has passed since last_send_time.
C9_RateLimitRules ==
  [][ AttemptStep
      => IF sent_count >= emails_per_batch
         THEN step'.rl = "batch" /\ step'.wait = BatchDelay
         ELSE step'.rl = "spacing" /\ step'.gap >= DelayBetween ]_vars

C9_Witness ==
  /\ step.act = "attempt"
  /\ step.rl = "spacing"
  /\ step.wait > 0
  /\ step.wait < DelayBetween

\* C10: sent_count goes up by exactly one per successful send and only then,
\* and drops only by a reset to 0 right after a batch cooldown wait.
C10_SentCountMonotone ==
  [][ /\ sent_count' = (IF step'.act = "attempt" /\ step'.rl = "batch"
                        THEN 0 ELSE sent_count)
                       + (IF step'.act = "attempt" /\ step'.out = "ok" THEN 1 ELSE 0)
      /\ (sent_count' > sent_count =>
            step'.out = "ok" /\ rows'[Len(rows')].st = "success")
      /\ (sent_count' < sent_count =>
            step'.rl = "batch" /\ now' >= now + BatchDelay) ]_vars

C10_Witness ==
  /\ step.act = "attempt"
  /\ step.rl = "batch"
  /\ step.scBefore = emails_per_batch
  /\ step.out # "ok"
  /\ sent_count = 0

\* number of success rows and the index of the most recent success row (0: None)
SuccessRows == Cardinality({k \in DOMAIN rows : rows[k].st = "success"})

LastSuccessIdx ==
  IF SuccessRows = 0 THEN 0
  ELSE rows[CHOOSE k \in DOMAIN rows :
              /\ rows[k].st = "success"
              /\ \A j \in DOMAIN rows : rows[j].st = "success" => j <= k].i

\* C11: on a stop_on_error abort the reported total (sent_count) equals the
\* number of success rows of the run, and the reported last successful address
\* is that of the most recent success row.
C11_AbortReport ==
  pc = "aborted" =>
    /\ sent_count = SuccessRows
    /\ last_successful_email = LastSuccessIdx

\* C12: if the suppression file cannot be read or the SMTP connectivity check
\* fails, the run stops before any recipient: no send_message, no row.
C12_FailClosed ==
  (startres.done /\ ~(startres.blOk /\ startres.testOk)) =>
    /\ rows = << >>
    /\ tried = {}
    /\ pc \in {"nobl", "startfail"}

C12_Witness ==
  /\ startres.done
  /\ ~startres.blOk
  /\ pc = "nobl"

\* ---------------- reading one suppression file ----------------
\* csv fields and lines the suppression files are built from
BlFields == {<<"email">>, <<"EMAIL">>, <<" ", "A">>, <<"my", "email">>, << >>}

CsvLines == {<< >>} \cup {<<f>> : f \in BlFields \ {<< >>}}
            \cup {<<f, g>> : f \in BlFields, g \in BlFields}

BlFiles == UNION {[1..n -> CsvLines] : n \in 0..MaxLines}

ReadInit ==
  /\ recips = [k \in 1..NumRecipients |-> <<"y">>]
  /\ bfile \in BlFiles
  /\ bl = {}
  /\ startres = [done |-> FALSE, blOk |-> FALSE, testOk |-> FALSE, loginOk |-> FALSE]
  /\ stop_on_error = TRUE
  /\ emails_per_batch = 1
  /\ pc = "readbl"
  /\ idx = 1
  /\ attempt = 0
  /\ sent_count = 0
  /\ last_send_time = InitialLastSendTime
  /\ last_successful_email = 0
  /\ now = StartTime
  /\ rows = << >>
  /\ email_sent_successfully = FALSE
  /\ non_fatal_skip = FALSE
  /\ tried = {}
  /\ step = NoStep

\* blacklist_emails = self._read_blacklist(blacklist_path)
LoadBlacklist ==
  /\ pc = "readbl"
  /\ bl' = ReadBlacklist(bfile)
  /\ pc' = "loaded"
  /\ UNCHANGED <<recips, stop_on_error, emails_per_batch, idx, attempt,
                 sent_count, last_send_time, last_successful_email, now, rows,
                 email_sent_successfully, non_fatal_skip, tried, step, bfile,
                 startres>>

ReadSpec == ReadInit /\ [][LoadBlacklist]_vars

\* the two formats of the claim: a header line with one field named 'email',
\* or a single-column file without such a header
IntendedHeadered(file) ==
  /\ Len(file) > 0
  /\ Cardinality({j \in DOMAIN file[1] : file[1][j] = <<"email">>}) = 1

SingleColumn(file) == \A k \in DOMAIN file : Len(file[k]) <= 1

ExpectedBlacklist(file) ==
  IF IntendedHeadered(file)
  THEN LET j == MaxIndex({j \in DOMAIN file[1] : file[1][j] = <<"email">>})
       IN { Lower(Strip(file[k][j])) :
              k \in {k \in 2..Len(file) : j <= Len(file[k])} } \ {<< >>}
  ELSE { Lower(Strip(file[k][1])) : k \in {k \in DOMAIN file : file[k] # << >>} }
       \ ({<< >>} \cup
          (IF \E k \in DOMAIN file : file[k] # << >>
           THEN LET f == CHOOSE k \in DOMAIN file :
                           file[k] # << >> /\ \A m \in 1..(k - 1) : file[m] = << >>
                IN IF Lower(Strip(file[f][1])) = <<"email">> THEN {<<"email">>} ELSE {}
           ELSE {}))

\* C13: for a headered file with an 'email' column or a headerless
\* single-column file, _read_blacklist returns exactly the non-empty, trimmed,
\* lowercased addresses, skipping only a literal 'email' first value; this
\* includes headerless files whose first address contains 'email'.
C13_ReadBlacklist ==
  (pc = "loaded" /\ (IntendedHeadered(bfile) \/ SingleColumn(bfile)))
    => bl = ExpectedBlacklist(bfile)

\* C14: recipients are processed in input order, and the row of recipient N is
\* written before any rate-limit wait or send attempt for recipient N + 1.
C14_InOrder ==
  [][ /\ idx' \in {idx, idx + 1}
      /\ (idx' = idx + 1 =>
            Cardinality({k \in DOMAIN rows' : rows'[k].i = idx}) = 1)
      /\ (rows' # rows =>
            Len(rows') = Len(rows) + 1 /\ rows'[Len(rows')].i = idx)
      /\ tried' \subseteq tried \cup {idx} ]_vars

C14_Witness ==
  /\ {1, 3} \subseteq tried
  /\ Len(rows) = 3

Statuses == {"success", "skipped_blacklist", "skipped",
             "skipped_policy_violation", "failed"}

\* C15 (as stated): every address of the recipient file appears at most once in
\* the results file, and every status is in the closed set.
C15_AtMostOnce ==
  /\ \A a \in Range(recips) :
       Cardinality({k \in DOMAIN rows : WrittenAddr(rows[k]) = a}) <= 1
  /\ \A k \in DOMAIN rows : rows[k].st \in Statuses

\* C15 (amended): every row of the recipient file has at most one row in the
\* results file, and every status is in the closed set; an address written in
\* the results file (the trimmed address for a suppressed recipient, the address
\* as listed otherwise) appears there at most once per recipient-file row that
\* writes it, i.e. per row listing it or, if suppressed, listing it with padding.
C15_AtMostOncePerEntry ==
  /\ \A i \in 1..Len(recips) : RowCount(i) <= 1
  /\ \A a \in {WrittenAddr(rows[k]) : k \in DOMAIN rows} :
       Cardinality({k \in DOMAIN rows : WrittenAddr(rows[k]) = a})
         <= Cardinality({i \in DOMAIN recips :
                           \/ recips[i] = a
                           \/ (Lower(Strip(recips[i])) \in bl /\ Strip(recips[i]) = a)})
  /\ \A k \in DOMAIN rows : rows[k].st \in Statuses

C15_Witness ==
  \E k1, k2 \in DOMAIN rows :
     /\ k1 # k2
     /\ WrittenAddr(rows[k1]) = WrittenAddr(rows[k2])
     /\ recips[rows[k1].i] # recips[rows[k2].i]
     /\ \E k \in DOMAIN rows : rows[k].st = "failed"

\* C16: with emails_per_batch = N >= 1, sent_count <= N in every reachable
\* state: at most N successful sends between two batch cooldowns.
C16_SentCountBounded ==
  emails_per_batch >= 1 => sent_count <= emails_per_batch

C16_Witness ==
  /\ emails_per_batch = MaxBatch
  /\ sent_count = emails_per_batch

\* C17: if the reconnect or re-login after a disconnect on attempt 1 or 2
\* raises, the exception is not classified: no row for the current recipient,
\* and the run ends with a fatal error whatever stop_on_error is.
C17_ReconnectFailureFatal ==
  /\ [][ (AttemptStep /\ step'.out = "disc" /\ attempt < Retries - 1
          /\ step'.reconn = "fail")
         => /\ pc' = "fatal"
            /\ rows' = rows ]_vars
  /\ [](step.reconn = "fail" =>
          /\ pc = "fatal"
          /\ RowCount(idx) = 0
          /\ ~ENABLED Next)

C17_Witness ==
  /\ pc = "fatal"
  /\ step.reconn = "fail"
  /\ attempt = 1
  /\ ~stop_on_error

\* C18: the post-loop abort (no success, stop_on_error, no non-fatal skip) is
\* never reached: every attempt loop ends with a break, a return or a
\* propagating exception before its iterations run out.
C18_PostLoopAbortDead ==
  /\ pc = "post" =>
       email_sent_successfully \/ ~stop_on_error \/ non_fatal_skip
  /\ attempt < Retries

C18_Witness ==
  /\ pc = "post"
  /\ ~email_sent_successfully
  /\ ~non_fatal_skip

====
